---- MODULE Spec2Model ----
(***************************************************************************)
(* Model of vaunix_api/lsg.py: the ctypes binding VNX_LSG_API around the   *)
(* Vaunix LabBrick signal generator library, its error check               *)
(* parse_int_answer, the status decoder LSGStatus and the lazily created   *)
(* default handle VNX_LSG_API.default().                                   *)
(*                                                                         *)
(* The vendor library is an input: what a native entry point returns is    *)
(* drawn from bounded sets of 32-bit words.  A native function whose       *)
(* restype is the callable int returns a C int, so the word is read as a   *)
(* signed 32-bit integer (c_int) before errcheck sees it.                  *)
(***************************************************************************)
EXTENDS Integers, Sequences, FiniteSets, TLC

VARIABLES
    os_name,      \* os.name of the process: "nt" or "posix"
    errcheck,     \* per native symbol: the errcheck attribute after __init__
    request,      \* the operation a caller asks for, and the library's answer to it
    call,         \* the last binding operation: what was called, what came back
    raw_status,   \* LSGStatus._raw_status of each decoder object
    snapshot,     \* the last as_dict() result of each decoder object
    shown,        \* the last __repr__() result: decoder and the keys it shows
    cls_default,  \* VNX_LSG_API._default: 0 is None, else an instance id
    library_of,   \* instance id -> id of the CDLL object in its _library
    nloads,       \* number of ctypes.cdll.LoadLibrary calls so far
    pc,           \* per thread: position inside default() / __init__
    local,        \* per thread: the instance under construction (0: none)
    handles,      \* per thread: the handles its acquisitions returned, in order
    architecture, \* platform.architecture()[0] of the interpreter
    remote,       \* what the download URL serves: an archive, or nothing
    target,       \* what target_path held when download_lsg_binaries began
    destination,  \* what target_path holds now
    scratch,      \* the files in the temporary directory
    frame         \* download_lsg_binaries: position, locals, logged lines

vars == <<os_name, errcheck, request, call, raw_status, snapshot, shown,
          cls_default, library_of, nloads, pc, local, handles,
          architecture, remote, target, destination, scratch, frame>>

binding_vars == <<os_name, errcheck, request, call>>
status_vars == <<raw_status, snapshot, shown>>
handle_vars == <<cls_default, library_of, nloads, pc, local, handles>>
install_vars == <<architecture, remote, target, destination, scratch, frame>>

(***************************************************************************)
(* Python integers.  The values the binding handles reach 2^32 - 1, above  *)
(* the integers the model checker can hold, so a Python integer v is held  *)
(* as the pair <<v \div 65536, v % 65536>>: a high part (negative for a    *)
(* negative v) and a low part in 0..65535.  The pair of a value is unique. *)
(***************************************************************************)
Pow2(n) == 2 ^ n

Half == Pow2(16)

Py(n) == <<n \div Half, n % Half>>

Hi(v) == v[1]
Lo(v) == v[2]

\* a <= b on Python integers
Leq(a, b) == Hi(a) < Hi(b) \/ (Hi(a) = Hi(b) /\ Lo(a) <= Lo(b))

\* a < 0
IsNegative(a) == Hi(a) < 0

\* The model checker's integer of a Python integer inside -2^31 .. 2^31 - 1
Val(v) == Hi(v) * Half + Lo(v)

\* w + d modulo 2^32, for a 32-bit word w and a small d
AddWord(w, d) == <<(Hi(w) + ((Lo(w) + d) \div Half)) % Half, (Lo(w) + d) % Half>>

\* ctypes.c_int(v).value: the low 32 bits of v read as a signed C int
c_int(v) == <<((Hi(v) + 32768) % Half) - 32768, Lo(v)>>

\* x & m on one half, for a mask half m >= 0 (x in two's complement)
RECURSIVE BitAnd(_, _)
BitAnd(x, m) ==
    IF m = 0 THEN 0
    ELSE (x % 2) * (m % 2) + 2 * BitAnd(x \div 2, m \div 2)

\* Python's x & m for a mask 0 <= m < 2^32
PyAnd(x, m) == <<BitAnd(Hi(x), Hi(m)), BitAnd(Lo(x), Lo(m))>>

\* Python's bool(v) of an integer
bool(v) == v # <<0, 0>>

(***************************************************************************)
(* Class constants of VNX_LSG_API                                          *)
(***************************************************************************)
MAX_NUM_DEVICES == 64
MAX_MODELNAME == 32

BAD_PARAMETER == <<32769, 0>>         \* 0x80010000
BAD_HID_IO == <<32770, 0>>            \* 0x80020000
DEVICE_NOT_READY == <<32771, 0>>      \* 0x80030000

INVALID_DEVID == <<32768, 0>>         \* 0x80000000
DEV_CONNECTED == <<0, 1>>             \* 0x00000001
DEV_OPENED == <<0, 2>>                \* 0x00000002
SWP_ACTIVE == <<0, 4>>                \* 0x00000004
SWP_UP == <<0, 8>>                    \* 0x00000008
SWP_REPEAT == <<0, 16>>               \* 0x00000010
SWP_BIDIRECTIONAL == <<0, 32>>        \* 0x00000020
PLL_LOCKED == <<0, 64>>               \* 0x00000040

(***************************************************************************)
(* Bounds of the model                                                     *)
(***************************************************************************)
MaxDeviceId == 1      \* device ids passed to the binding: 0..MaxDeviceId
Delta == 1            \* native return words lie within Delta of an anchor
MaxNameBytes == 2     \* bytes the native call writes before the fill byte
MaxFilled == 2        \* device ids the native call writes into the array
MaxSetBits == 1       \* bits set in a status word given to LSGStatus
NumThreads == 2       \* threads acquiring a handle
MaxAcquire == 3       \* handle acquisitions per thread
MaxEntries == 2       \* entries in an archive's listing

(***************************************************************************)
(* The native surface and the binding's method table                       *)
(***************************************************************************)
\* get_functions with fnLSG_GetDeviceStatus put into the loop's list
get_functions_WithDeviceStatus ==
    {"fnLSG_GetSerialNumber", "fnLSG_GetFrequency", "fnLSG_GetPowerLevel",
     "fnLSG_GetStartFrequency", "fnLSG_GetEndFrequency", "fnLSG_GetDwellTime",
     "fnLSG_GetFrequencyStep", "fnLSG_GetRF_On", "fnLSG_GetUseInternalRef",
     "fnLSG_GetPowerLevelAbs", "fnLSG_GetMaxPwr", "fnLSG_GetMinPwr",
     "fnLSG_GetMaxFreq", "fnLSG_GetMinFreq", "fnLSG_GetDeviceStatus"}

\* fnLSG_Get* entry points registered in the get_functions loop of __init__
get_functions ==
    {"fnLSG_GetSerialNumber", "fnLSG_GetFrequency", "fnLSG_GetPowerLevel",
     "fnLSG_GetStartFrequency", "fnLSG_GetEndFrequency", "fnLSG_GetDwellTime",
     "fnLSG_GetFrequencyStep", "fnLSG_GetRF_On", "fnLSG_GetUseInternalRef",
     "fnLSG_GetPowerLevelAbs", "fnLSG_GetMaxPwr", "fnLSG_GetMinPwr",
     "fnLSG_GetMaxFreq", "fnLSG_GetMinFreq"}

\* set_functions with the errcheck line of fnLSG_SaveSettings left out
set_functions_NoSaveSettings ==
    {"fnLSG_InitDevice", "fnLSG_CloseDevice", "fnLSG_GetDLLVersion",
     "fnLSG_SetFrequency", "fnLSG_SetStartFrequency", "fnLSG_SetEndFrequency",
     "fnLSG_SetFrequencyStep", "fnLSG_SetDwellTime", "fnLSG_SetPowerLevel",
     "fnLSG_SetRFOn", "fnLSG_SetUseInternalRef", "fnLSG_SetSweepDirection",
     "fnLSG_SetSweepMode", "fnLSG_StartSweep"}

\* entry points given errcheck = parse_int_answer one by one in __init__
set_functions ==
    {"fnLSG_InitDevice", "fnLSG_CloseDevice", "fnLSG_GetDLLVersion",
     "fnLSG_SetFrequency", "fnLSG_SetStartFrequency", "fnLSG_SetEndFrequency",
     "fnLSG_SetFrequencyStep", "fnLSG_SetDwellTime", "fnLSG_SetPowerLevel",
     "fnLSG_SetRFOn", "fnLSG_SetUseInternalRef", "fnLSG_SetSweepDirection",
     "fnLSG_SetSweepMode", "fnLSG_StartSweep", "fnLSG_SaveSettings"}

\* entry points whose errcheck __init__ leaves unset
unchecked_functions ==
    {"fnLSG_SetTestMode", "fnLSG_GetNumDevices", "fnLSG_GetDevInfo",
     "fnLSG_GetDeviceStatus"}

\* self._get_model_name_char: the entry point __init__ picks by os.name
get_model_name_char(os) ==
    IF os = "nt" THEN "fnLSG_GetModelNameA" ELSE "fnLSG_GetModelName"

\* Binding methods of the form  m(self, device_id) -> int
DeviceMethods ==
    [get_serial_number |-> "fnLSG_GetSerialNumber",
     init_device |-> "fnLSG_InitDevice",
     close_device |-> "fnLSG_CloseDevice",
     save_settings |-> "fnLSG_SaveSettings",
     get_frequency |-> "fnLSG_GetFrequency",
     get_power_level |-> "fnLSG_GetPowerLevelAbs",
     get_rf_on |-> "fnLSG_GetRF_On",
     get_start_frequency |-> "fnLSG_GetStartFrequency",
     get_end_frequency |-> "fnLSG_GetEndFrequency",
     get_frequency_step |-> "fnLSG_GetFrequencyStep",
     get_dwell_time |-> "fnLSG_GetDwellTime",
     get_use_internal_ref |-> "fnLSG_GetUseInternalRef",
     get_min_pwr |-> "fnLSG_GetMinPwr",
     get_max_pwr |-> "fnLSG_GetMaxPwr",
     get_min_freq |-> "fnLSG_GetMinFreq",
     get_max_freq |-> "fnLSG_GetMaxFreq",
     get_device_status |-> "fnLSG_GetDeviceStatus"]

\* Binding methods of the form  m(self, device_id, value: int) -> int
IntSetters ==
    [set_frequency |-> "fnLSG_SetFrequency",
     set_power_level |-> "fnLSG_SetPowerLevel",
     set_start_frequency |-> "fnLSG_SetStartFrequency",
     set_end_frequency |-> "fnLSG_SetEndFrequency",
     set_frequency_step |-> "fnLSG_SetFrequencyStep",
     set_dwell_time |-> "fnLSG_SetDwellTime"]

\* Binding methods of the form  m(self, device_id, flag: bool) -> int
BoolSetters ==
    [start_sweep |-> "fnLSG_StartSweep",
     set_rf_on |-> "fnLSG_SetRFOn",
     set_use_internal_ref |-> "fnLSG_SetUseInternalRef",
     set_sweep_direction |-> "fnLSG_SetSweepDirection",
     set_sweep_mode |-> "fnLSG_SetSweepMode"]

\* Binding methods of the form  m(self) -> int
GlobalMethods ==
    [get_dll_version |-> "fnLSG_GetDLLVersion",
     get_num_devices |-> "fnLSG_GetNumDevices"]

\* The attributes of self._library that __init__ and the methods touch
Symbols ==
    get_functions \cup set_functions \cup unchecked_functions
        \cup {"fnLSG_GetModelNameA", "fnLSG_GetModelName"}
        \cup {DeviceMethods[m] : m \in DOMAIN DeviceMethods}
        \cup {IntSetters[m] : m \in DOMAIN IntSetters}
        \cup {BoolSetters[m] : m \in DOMAIN BoolSetters}
        \cup {GlobalMethods[m] : m \in DOMAIN GlobalMethods}

\* The symbols whose errcheck is parse_int_answer once __init__ has run
RegisteredEntryPoints(os) ==
    {get_model_name_char(os)} \cup set_functions \cup get_functions

\* The errcheck attribute of every function pointer once __init__ has run
Registration(os) ==
    [f \in Symbols |->
        IF f \in RegisteredEntryPoints(os) THEN "parse_int_answer" ELSE "None"]

(***************************************************************************)
(* Results of a binding operation                                          *)
(***************************************************************************)
NoError == [type |-> "none", name |-> "", code |-> <<0, 0>>, arguments |-> <<>>]

NoValue == [kind |-> "none", int |-> <<0, 0>>, items |-> <<>>]

IntValue(v) == [kind |-> "int", int |-> v, items |-> <<>>]

\* a str, held as the sequence of its code points
TextValue(t) == [kind |-> "str", int |-> <<0, 0>>, items |-> t]

\* a list of device ids
ListValue(l) == [kind |-> "list", int |-> <<0, 0>>, items |-> l]

Returned(v) == [outcome |-> "returned", value |-> v, error |-> NoError]

Raised(e) == [outcome |-> "raised", value |-> NoValue, error |-> e]

\* VNXError("Error executing %s" % func.__name__, answer, arguments)
VNXError(name, answer, arguments) ==
    [type |-> "VNXError", name |-> name, code |-> answer, arguments |-> arguments]

\* parse_int_answer testing the sign bit (answer & ERROR_BIT) instead of the
\* threshold
parse_int_answer_ErrorBit(answer, func, arguments) ==
    IF IsNegative(answer)
    THEN Raised(VNXError(func, answer, arguments))
    ELSE Returned(IntValue(answer))

\* VNX_LSG_API.parse_int_answer(answer, func, arguments)
parse_int_answer(answer, func, arguments) ==
    IF Leq(answer, c_int(DEVICE_NOT_READY))
    THEN Raised(VNXError(func, answer, arguments))
    ELSE Returned(IntValue(answer))

\* One foreign call through a function pointer whose restype is int: the
\* native word comes back as a C int, and the pointer's errcheck, when one
\* is registered, decides the result.
Invoke(func, arguments, word) ==
    IF errcheck[func] = "parse_int_answer"
    THEN parse_int_answer(c_int(word), func, arguments)
    ELSE Returned(IntValue(c_int(word)))

(***************************************************************************)
(* Python helpers used by the binding methods                              *)
(***************************************************************************)
\* The stop index of seq[:n] on a sequence of length len (PySlice_AdjustIndices)
SliceStop(n, len) ==
    LET v == Val(n)
    IN  IF v < 0
        THEN (IF v + len < 0 THEN 0 ELSE v + len)
        ELSE (IF v > len THEN len ELSE v)

\* seq[:n]
SliceTo(seq, n) == SubSeq(seq, 1, SliceStop(n, Len(seq)))

\* ctypes c_char array .value: the bytes before the first NUL
RECURSIVE BufferValue(_)
BufferValue(buf) ==
    IF buf = <<>> \/ Head(buf) = 0 THEN <<>>
    ELSE <<Head(buf)>> \o BufferValue(Tail(buf))

Continuation(b) == b \in 128..191

\* bytes.decode(): strict UTF-8.  ok is FALSE where Python raises
\* UnicodeDecodeError; text is the sequence of code points.
RECURSIVE Utf8Decode(_)
Utf8Decode(b) ==
    IF b = <<>> THEN [ok |-> TRUE, text |-> <<>>]
    ELSE
      LET n == Len(b)
          b1 == b[1]
          need == IF b1 < 128 THEN 1
                  ELSE IF b1 \in 194..223 THEN 2
                  ELSE IF b1 \in 224..239 THEN 3
                  ELSE IF b1 \in 240..244 THEN 4
                  ELSE 0
          second == IF b1 = 224 THEN 160..191
                    ELSE IF b1 = 237 THEN 128..159
                    ELSE IF b1 = 240 THEN 144..191
                    ELSE IF b1 = 244 THEN 128..143
                    ELSE 128..191
          valid == /\ need > 0
                   /\ n >= need
                   /\ need >= 2 => b[2] \in second
                   /\ need >= 3 => Continuation(b[3])
                   /\ need >= 4 => Continuation(b[4])
          cp == IF need = 1 THEN b1
                ELSE IF need = 2 THEN (b1 - 192) * 64 + (b[2] - 128)
                ELSE IF need = 3
                     THEN (b1 - 224) * 4096 + (b[2] - 128) * 64 + (b[3] - 128)
                ELSE (b1 - 240) * 262144 + (b[2] - 128) * 4096
                         + (b[3] - 128) * 64 + (b[4] - 128)
      IN  IF ~valid THEN [ok |-> FALSE, text |-> <<>>]
          ELSE LET rest == Utf8Decode(SubSeq(b, need + 1, n))
               IN  IF rest.ok
                   THEN [ok |-> TRUE, text |-> <<cp>> \o rest.text]
                   ELSE [ok |-> FALSE, text |-> <<>>]

UnicodeDecodeError ==
    [type |-> "UnicodeDecodeError", name |-> "", code |-> <<0, 0>>,
     arguments |-> <<>>]

(***************************************************************************)
(* Inputs: what callers pass and what the vendor library hands back        *)
(***************************************************************************)
DeviceIds == 0..MaxDeviceId

IntArgs == {-2, 5000000}

\* Words around which the native return values are drawn: zero, the sign
\* bit, the three error codes and the next multiple of 0x10000 after them
Anchors ==
    {<<0, 0>>, INVALID_DEVID, BAD_PARAMETER, BAD_HID_IO, DEVICE_NOT_READY,
     <<32772, 0>>}

\* 32-bit words a native call may return
RawWords ==
    {AddWord(a, d) : a \in Anchors, d \in (0 - Delta)..Delta}
        \cup {Py(7), Py(5000000)}

\* Words fnLSG_GetModelName may return as the name length
LengthWords == RawWords \cup {Py(k) : k \in {2, 3, 31, 32, 33}}

\* Words fnLSG_GetDevInfo may return as the device count
CountWords == RawWords \cup {AddWord(<<0, 0>>, k) : k \in {-65, -64, -63, 2, 63, 64, 65}}

\* Bytes the vendor library may write into the model name buffer:
\* NUL, "A", "L", and the two bytes of U+00E9 in UTF-8
NameBytes == {0, 65, 76, 195, 169}

RECURSIVE SeqsUpTo(_, _)
SeqsUpTo(S, n) ==
    IF n = 0 THEN {<<>>}
    ELSE LET shorter == SeqsUpTo(S, n - 1)
         IN  shorter \cup {Append(q, x) : q \in shorter, x \in S}

\* The 32-byte buffer after the native call wrote prefix and left (or set)
\* every later byte to fill
NameBuffer(prefix, fill) ==
    [i \in 1..MAX_MODELNAME |-> IF i <= Len(prefix) THEN prefix[i] ELSE fill]

\* The device id array after the native call wrote filled ids into it
DeviceArray(filled) ==
    [i \in 1..MAX_NUM_DEVICES |-> IF i <= filled THEN 100 + i ELSE 0]

\* One operation a caller asks for: the method, the arguments the caller
\* passes, the word the native entry point hands back and what it leaves in
\* the out-buffer the binding passed (model name bytes, device id array)
Req(method, args, word, buffer) ==
    [method |-> method, args |-> args, word |-> word, buffer |-> buffer]

NoRequest == Req("", <<>>, <<0, 0>>, <<>>)

Requests ==
    {Req(m, <<id>>, w, <<>>) :
        m \in DOMAIN DeviceMethods, id \in DeviceIds, w \in RawWords}
    \cup {Req(m, <<id, x>>, w, <<>>) :
        m \in DOMAIN IntSetters, id \in DeviceIds, x \in IntArgs, w \in RawWords}
    \cup {Req(m, <<id, x>>, w, <<>>) :
        m \in DOMAIN BoolSetters, id \in DeviceIds, x \in BOOLEAN, w \in RawWords}
    \cup {Req(m, <<>>, w, <<>>) : m \in DOMAIN GlobalMethods, w \in RawWords}
    \cup {Req("set_test_mode", <<x>>, <<0, 0>>, <<>>) : x \in BOOLEAN}
    \cup {Req("get_dev_info", <<>>, w, DeviceArray(filled)) :
        filled \in (0..MaxFilled) \cup {MAX_NUM_DEVICES}, w \in CountWords}
    \cup {Req("get_model_name", <<id>>, w, NameBuffer(prefix, fill)) :
        id \in DeviceIds, prefix \in SeqsUpTo(NameBytes, MaxNameBytes),
        fill \in {0, 65}, w \in LengthWords}

(***************************************************************************)
(* Binding operations                                                      *)
(***************************************************************************)
NoCall ==
    [method |-> "", symbol |-> "", arguments |-> <<>>, word |-> <<0, 0>>,
     outcome |-> "none", value |-> NoValue, error |-> NoError,
     invoked |-> <<>>]

\* NativeMethod calling the entry point a second time when the first call
\* failed
NativeMethod_Retry(method, symbol, arguments, word) ==
    LET r == Invoke(symbol, arguments, word)
    IN  /\ call' = [method |-> method, symbol |-> symbol,
                    arguments |-> arguments, word |-> word,
                    outcome |-> r.outcome, value |-> r.value,
                    error |-> r.error,
                    invoked |-> IF r.outcome = "raised"
                                THEN <<symbol, symbol>> ELSE <<symbol>>]
        /\ UNCHANGED <<os_name, errcheck, request, status_vars, handle_vars, install_vars>>

\* return self._library.<symbol>(*arguments)
NativeMethod(method, symbol, arguments, word) ==
    LET r == Invoke(symbol, arguments, word)
    IN  /\ call' = [method |-> method, symbol |-> symbol,
                    arguments |-> arguments, word |-> word,
                    outcome |-> r.outcome, value |-> r.value,
                    error |-> r.error, invoked |-> <<symbol>>]
        /\ UNCHANGED <<os_name, errcheck, request, status_vars, handle_vars, install_vars>>

\* get_*/init_device/close_device/save_settings/get_device_status(device_id)
DeviceCall ==
    /\ request.method \in DOMAIN DeviceMethods
    /\ NativeMethod(request.method, DeviceMethods[request.method],
                    request.args, request.word)

\* set_frequency ... set_dwell_time(device_id, value)
IntSetterCall ==
    /\ request.method \in DOMAIN IntSetters
    /\ NativeMethod(request.method, IntSetters[request.method],
                    request.args, request.word)

\* start_sweep, set_rf_on ... set_sweep_mode(device_id, flag)
BoolSetterCall ==
    /\ request.method \in DOMAIN BoolSetters
    /\ NativeMethod(request.method, BoolSetters[request.method],
                    request.args, request.word)

\* get_dll_version(), get_num_devices()
GlobalCall ==
    /\ request.method \in DOMAIN GlobalMethods
    /\ NativeMethod(request.method, GlobalMethods[request.method],
                    request.args, request.word)

\* set_test_mode(test_mode): restype None, nothing is returned
set_test_mode ==
    /\ request.method = "set_test_mode"
    /\ call' = [NoCall EXCEPT !.method = "set_test_mode",
                              !.symbol = "fnLSG_SetTestMode",
                              !.arguments = request.args,
                              !.outcome = "returned",
                              !.invoked = <<"fnLSG_SetTestMode">>]
    /\ UNCHANGED <<os_name, errcheck, request, status_vars, handle_vars, install_vars>>

\* list(device_ids[:active_devices])
DevInfoResult(device_ids, active_devices) ==
    ListValue(SliceTo(device_ids, active_devices))

\* get_dev_info()
get_dev_info ==
    /\ request.method = "get_dev_info"
    /\ LET device_ids == request.buffer
           r == Invoke("fnLSG_GetDevInfo", <<device_ids>>, request.word)
       IN  call' = [method |-> "get_dev_info", symbol |-> "fnLSG_GetDevInfo",
                    arguments |-> <<device_ids>>, word |-> request.word,
                    outcome |-> r.outcome,
                    value |-> IF r.outcome = "returned"
                              THEN DevInfoResult(device_ids, r.value.int)
                              ELSE NoValue,
                    error |-> r.error, invoked |-> <<"fnLSG_GetDevInfo">>]
    /\ UNCHANGED <<os_name, errcheck, request, status_vars, handle_vars, install_vars>>

\* ModelNameResult without the [:name_len] slice
ModelNameResult_Untruncated(buffer, name_len) ==
    LET d == Utf8Decode(BufferValue(buffer))
    IN  IF d.ok THEN Returned(TextValue(d.text)) ELSE Raised(UnicodeDecodeError)

\* buffer.value[:name_len].decode()
ModelNameResult(buffer, name_len) ==
    LET d == Utf8Decode(SliceTo(BufferValue(buffer), name_len))
    IN  IF d.ok THEN Returned(TextValue(d.text)) ELSE Raised(UnicodeDecodeError)

\* get_model_name(device_id)
get_model_name ==
    /\ request.method = "get_model_name"
    /\ LET buffer == request.buffer
           symbol == get_model_name_char(os_name)
           arguments == <<request.args[1], buffer>>
           r == Invoke(symbol, arguments, request.word)
           res == IF r.outcome = "returned"
                  THEN ModelNameResult(buffer, r.value.int)
                  ELSE r
       IN  call' = [method |-> "get_model_name", symbol |-> symbol,
                    arguments |-> arguments, word |-> request.word,
                    outcome |-> res.outcome, value |-> res.value,
                    error |-> res.error, invoked |-> <<symbol>>]
    /\ UNCHANGED <<os_name, errcheck, request, status_vars, handle_vars, install_vars>>

(***************************************************************************)
(* LSGStatus: the status decoder                                           *)
(***************************************************************************)
is_invalid(raw) == bool(PyAnd(raw, INVALID_DEVID))

is_connected(raw) == bool(PyAnd(raw, DEV_CONNECTED))

\* is_open testing DEV_CONNECTED
is_open_ConnectedMask(raw) == bool(PyAnd(raw, DEV_CONNECTED))

is_open(raw) == bool(PyAnd(raw, DEV_OPENED))

is_sweeping(raw) == bool(PyAnd(raw, SWP_ACTIVE))

is_sweeping_up(raw) == bool(PyAnd(raw, SWP_UP))

is_repeating_sweep(raw) == bool(PyAnd(raw, SWP_REPEAT))

is_sweeping_bidirectional(raw) == bool(PyAnd(raw, SWP_BIDIRECTIONAL))

is_pll_locked(raw) == bool(PyAnd(raw, PLL_LOCKED))

\* LSGStatus.as_dict(): every method of the class named is_*, called
as_dict(raw) ==
    [is_connected |-> is_connected(raw),
     is_invalid |-> is_invalid(raw),
     is_open |-> is_open(raw),
     is_pll_locked |-> is_pll_locked(raw),
     is_repeating_sweep |-> is_repeating_sweep(raw),
     is_sweeping |-> is_sweeping(raw),
     is_sweeping_bidirectional |-> is_sweeping_bidirectional(raw),
     is_sweeping_up |-> is_sweeping_up(raw)]

\* LSGStatus.__repr__(): the keys of as_dict() whose value is true
repr_keys(raw) == {k \in DOMAIN as_dict(raw) : as_dict(raw)[k]}

Decoders == 1..2

FlagBits == {0, 1, 2, 3, 4, 5, 6, 31}

\* Bits of the status word no predicate reads
OtherBits == {7, 30}

RECURSIVE SumPow2(_)
SumPow2(B) ==
    IF B = {} THEN 0
    ELSE LET k == CHOOSE x \in B : TRUE IN Pow2(k) + SumPow2(B \ {k})

\* The 32-bit word whose set bits are B
WordOfBits(B) ==
    <<SumPow2({k - 16 : k \in {x \in B : x >= 16}}), SumPow2({x \in B : x < 16})>>

\* Status words with at most MaxSetBits bits set, and the all-ones word
StatusWords ==
    {WordOfBits(B) : B \in {X \in SUBSET (FlagBits \cup OtherBits) :
                              Cardinality(X) <= MaxSetBits}}
        \cup {WordOfBits(0..31)}

\* What LSGStatus is built from: a status word as an unsigned integer, or
\* as the signed integer get_device_status returns for it
StatusInputs == StatusWords \cup {c_int(w) : w \in StatusWords}

\* d.as_dict()
LSGStatus_as_dict ==
    \E d \in Decoders :
        /\ snapshot' = [snapshot EXCEPT ![d] = <<as_dict(raw_status[d])>>]
        /\ UNCHANGED <<raw_status, shown, binding_vars, handle_vars,
                     install_vars>>

\* repr(d)
LSGStatus_repr ==
    \E d \in Decoders :
        /\ shown' = [decoder |-> d, keys |-> repr_keys(raw_status[d])]
        /\ UNCHANGED <<raw_status, snapshot, binding_vars, handle_vars,
                     install_vars>>

(***************************************************************************)
(* The library handle: VNX_LSG_API.__init__(library=None) and default()    *)
(***************************************************************************)
Threads == 1..NumThreads

\* Every handle any thread has obtained so far
AllHandles == UNION {{handles[t][i] : i \in 1..Len(handles[t])} : t \in Threads}

\* ctypes.cdll.LoadLibrary(default_library_location()): a new CDLL object.
\* Gives the instances' libraries after VNX_LSG_API() built one more instance.
LoadLibrary(libs, loads) == Append(libs, loads + 1)

\* VNX_LSG_API() with library=None, as one step: the new instance's id
Construct(t) ==
    /\ library_of' = LoadLibrary(library_of, nloads)
    /\ nloads' = nloads + 1
    /\ local' = [local EXCEPT ![t] = Len(library_of) + 1]

\* A caller builds VNX_LSG_API() itself, library=None
DirectConstruct ==
    \E t \in Threads :
        /\ pc[t] = "idle"
        /\ Len(handles[t]) < MaxAcquire
        /\ library_of' = LoadLibrary(library_of, nloads)
        /\ nloads' = nloads + 1
        /\ handles' = [handles EXCEPT ![t] = Append(@, Len(library_of) + 1)]
        /\ UNCHANGED <<cls_default, pc, local, binding_vars, status_vars,
                       install_vars>>

\* VNX_LSG_API.default(), run without another thread in between
DefaultCall ==
    \E t \in Threads :
        /\ pc[t] = "idle"
        /\ Len(handles[t]) < MaxAcquire
        /\ IF cls_default = 0
           THEN /\ library_of' = LoadLibrary(library_of, nloads)
                /\ nloads' = nloads + 1
                /\ cls_default' = Len(library_of) + 1
           ELSE UNCHANGED <<library_of, nloads, cls_default>>
        /\ handles' = [handles EXCEPT ![t] = Append(@, cls_default')]
        /\ UNCHANGED <<pc, local, binding_vars, status_vars,
                       install_vars>>

\* default(), step 1: if cls._default is None
DefaultTest ==
    \E t \in Threads :
        /\ pc[t] = "idle"
        /\ Len(handles[t]) < MaxAcquire
        /\ pc' = [pc EXCEPT ![t] = IF cls_default = 0 THEN "construct" ELSE "return"]
        /\ UNCHANGED <<cls_default, library_of, nloads, local, handles,
                       binding_vars, status_vars,
                       install_vars>>

\* default(), step 2: VNX_LSG_API()
DefaultConstruct ==
    \E t \in Threads :
        /\ pc[t] = "construct"
        /\ Construct(t)
        /\ pc' = [pc EXCEPT ![t] = "store"]
        /\ UNCHANGED <<cls_default, handles, binding_vars, status_vars,
                       install_vars>>

\* default(), step 3: cls._default = <the new instance>
DefaultStore ==
    \E t \in Threads :
        /\ pc[t] = "store"
        /\ cls_default' = local[t]
        /\ local' = [local EXCEPT ![t] = 0]
        /\ pc' = [pc EXCEPT ![t] = "return"]
        /\ UNCHANGED <<library_of, nloads, handles, binding_vars, status_vars,
                       install_vars>>

\* default(), step 4: return cls._default
DefaultReturn ==
    \E t \in Threads :
        /\ pc[t] = "return"
        /\ handles' = [handles EXCEPT ![t] = Append(@, cls_default)]
        /\ pc' = [pc EXCEPT ![t] = "idle"]
        /\ UNCHANGED <<cls_default, library_of, nloads, local,
                       binding_vars, status_vars,
                       install_vars>>

(***************************************************************************)
(* download_lsg_binaries.  A file name is the sequence of its characters;  *)
(* a file's content is a record: a zip archive with its listing in order,  *)
(* or plain bytes known by a number.                                       *)
(***************************************************************************)
\* '64Bit SDK'
SdkMarker == <<"6", "4", "B", "i", "t", " ", "S", "D", "K">>

\* 'vnx_fsynth.dll'
DllSuffix ==
    <<"v", "n", "x", "_", "f", "s", "y", "n", "t", "h", ".", "d", "l", "l">>

\* 'vnx_LSG_API.zip', the file the download is saved as
MainZipName ==
    <<"v", "n", "x", "_", "L", "S", "G", "_", "A", "P", "I", ".", "z", "i", "p">>

\* marker in name
Contains(name, marker) ==
    \E i \in 0..(Len(name) - Len(marker)) :
        SubSeq(name, i + 1, i + Len(marker)) = marker

\* name.endswith(suffix)
EndsWith(name, suffix) ==
    /\ Len(suffix) <= Len(name)
    /\ SubSeq(name, Len(name) - Len(suffix) + 1, Len(name)) = suffix

\* os.path.basename(name): what follows the last separator
Basename(name) ==
    LET seps == {i \in 1..Len(name) : name[i] = "/"}
        last == IF seps = {} THEN 0
                ELSE CHOOSE i \in seps : \A k \in seps : k <= i
    IN  SubSeq(name, last + 1, Len(name))

Blob(id) == [zip |-> FALSE, listing |-> <<>>, bytes |-> id]

Zip(entries) == [zip |-> TRUE, listing |-> entries, bytes |-> 0]

\* archive.namelist()
namelist(archive) == [i \in DOMAIN archive.listing |-> archive.listing[i].name]

\* The first name of the listing that the loop breaks on: its index, or 0
\* when the loop runs into its else branch
FirstSdk(names) ==
    LET hits == {i \in DOMAIN names : Contains(names[i], SdkMarker)}
    IN  IF hits = {} THEN 0 ELSE CHOOSE i \in hits : \A k \in hits : i <= k

FirstDll(names) ==
    LET hits == {i \in DOMAIN names : EndsWith(names[i], DllSuffix)}
    IN  IF hits = {} THEN 0 ELSE CHOOSE i \in hits : \A k \in hits : i <= k

\* archive.extract(name, temp_dir) looks the member up by name, and a name
\* that occurs twice in the listing stands for its last entry
Member(archive, name) ==
    LET same == {i \in DOMAIN archive.listing : archive.listing[i].name = name}
    IN  archive.listing[CHOOSE i \in same : \A k \in same : k <= i].body

\* A file written into a directory, replacing one of the same name
Put(dir, name, body) ==
    {e \in dir : e.name # name} \cup {[name |-> name, body |-> body]}

\* The file a directory holds under a name
Get(dir, name) == (CHOOSE e \in dir : e.name = name).body

\* What a path can hold: nothing, a directory of files, or one file
Missing == [kind |-> "missing", files |-> {}, body |-> Blob(0)]

Directory(files) == [kind |-> "dir", files |-> files, body |-> Blob(0)]

RegularFile(body) == [kind |-> "file", files |-> {}, body |-> body]

\* Names of the entries of the downloaded archive
OuterNames ==
    {SdkMarker \o <<".", "z", "i", "p">>,
     <<"L", "S", "G", "/">> \o SdkMarker,
     <<"6", "4", "b", "i", "t", " ", "S", "D", "K">>}

\* Names of the entries of a nested archive
SdkNames ==
    {DllSuffix,
     <<"x", "/">> \o DllSuffix,
     DllSuffix \o <<".", "x">>}

\* An entry of the downloaded archive is a nested archive with the listed
\* names, or a file that is no archive
Shapes ==
    {[zip |-> FALSE, names |-> <<>>]}
        \cup {[zip |-> TRUE, names |-> l] : l \in SeqsUpTo(SdkNames, MaxEntries)}

\* Every entry holds bytes of its own: entry j of nested archive i holds
\* the bytes numbered 10 * i + j
SdkArchive(i, names) ==
    Zip([j \in DOMAIN names |-> [name |-> names[j], body |-> Blob(10 * i + j)]])

MainArchive(names, shapes) ==
    Zip([i \in DOMAIN names |->
            [name |-> names[i],
             body |-> IF shapes[i].zip THEN SdkArchive(i, shapes[i].names)
                      ELSE Blob(10 * i)]])

\* What the URL serves: nothing (urlretrieve raises), a file that is no
\* archive, or an archive of up to n entries
Unreachable == [reachable |-> FALSE, body |-> Blob(0)]

Served(body) == [reachable |-> TRUE, body |-> body]

Remotes(n) ==
    {Unreachable, Served(Blob(2))}
        \cup UNION {{Served(MainArchive(names, shapes)) :
                        shapes \in [DOMAIN names -> Shapes]} :
                    names \in SeqsUpTo(OuterNames, n)}

\* target_path before the call: absent, an empty directory, or a directory
\* that holds vnx_fsynth.dll already
Targets ==
    {Missing, Directory({}),
     Directory({[name |-> DllSuffix, body |-> Blob(1)]})}

NoException == [type |-> "none", message |-> "", listing |-> <<>>]

Exception(type, message, listing) ==
    [type |-> type, message |-> message, listing |-> listing]

\* download_lsg_binaries has not been called
NoFrame ==
    [pc |-> "idle", sdk_file |-> <<>>, dll_file |-> <<>>, downloads |-> 0,
     log |-> <<>>, exception |-> NoException]

\* The call is made
CalledFrame == [NoFrame EXCEPT !.pc = "platform"]

\* logging.getLogger('vaunix_api').info(message)
info(f, message) == [f EXCEPT !.log = Append(@, message)]

\* An exception leaves the function; the with statement removes the
\* temporary directory on the way out
Raise(f, exception) ==
    /\ frame' = [f EXCEPT !.pc = "raised", !.exception = exception]
    /\ scratch' = {}

\* if os.name != 'nt' or platform.architecture()[0] != '64bit': raise
CheckPlatform ==
    /\ frame.pc = "platform"
    /\ IF os_name # "nt" \/ architecture # "64bit"
       THEN Raise(frame, Exception("RuntimeError",
                                   "Only implemented for Windows x64", <<>>))
       ELSE /\ frame' = [frame EXCEPT !.pc = "download"]
            /\ scratch' = {}
    /\ UNCHANGED <<architecture, remote, target, destination,
                   binding_vars, status_vars, handle_vars>>

\* urllib.request.urlretrieve(zip_url, main_zip_file)
Download ==
    /\ frame.pc = "download"
    /\ LET f == [info(frame, "Downloading LSG API")
                    EXCEPT !.downloads = @ + 1]
       IN  IF remote.reachable
           THEN /\ scratch' = Put(scratch, MainZipName, remote.body)
                /\ frame' = [f EXCEPT !.pc = "main_zip"]
           ELSE Raise(f, Exception("URLError", "", <<>>))
    /\ UNCHANGED <<architecture, remote, target, destination,
                   binding_vars, status_vars, handle_vars>>

\* The outer archive: find the first name with '64Bit SDK', extract it
FindSdk ==
    /\ frame.pc = "main_zip"
    /\ LET f == info(frame, "Unzipping LSG API")
           main_zip == Get(scratch, MainZipName)
           names == namelist(main_zip)
           k == FirstSdk(names)
       IN  IF ~main_zip.zip
           THEN Raise(f, Exception("BadZipFile", "File is not a zip file", <<>>))
           ELSE IF k = 0
           THEN Raise(f, Exception("RuntimeError", "64bit SDK not found", names))
           ELSE /\ scratch' = Put(scratch, names[k], Member(main_zip, names[k]))
                /\ frame' = [f EXCEPT !.pc = "sdk_zip", !.sdk_file = names[k]]
    /\ UNCHANGED <<architecture, remote, target, destination,
                   binding_vars, status_vars, handle_vars>>

\* The nested archive: find the first name ending in 'vnx_fsynth.dll',
\* extract it
FindDll ==
    /\ frame.pc = "sdk_zip"
    /\ LET f == info(frame, "Unzipping LSG SDK")
           sdk_zip == Get(scratch, frame.sdk_file)
           names == namelist(sdk_zip)
           k == FirstDll(names)
       IN  IF ~sdk_zip.zip
           THEN Raise(f, Exception("BadZipFile", "File is not a zip file", <<>>))
           ELSE IF k = 0
           THEN Raise(f, Exception("RuntimeError", "DLL not found", names))
           ELSE /\ scratch' = Put(scratch, names[k], Member(sdk_zip, names[k]))
                /\ frame' = [f EXCEPT !.pc = "move", !.dll_file = names[k]]
    /\ UNCHANGED <<architecture, remote, target, destination,
                   binding_vars, status_vars, handle_vars>>

\* shutil.move(src, dst): into dst under src's base name when dst is a
\* directory, refusing a name that exists there; else onto dst itself
shutil_move(body, name, dst) ==
    IF dst.kind = "dir"
    THEN IF \E e \in dst.files : e.name = Basename(name)
         THEN [moved |-> FALSE, dst |-> dst]
         ELSE [moved |-> TRUE,
               dst |-> Directory(Put(dst.files, Basename(name), body))]
    ELSE [moved |-> TRUE, dst |-> RegularFile(body)]

\* shutil.move(extracted_dll_location, target_path), then the end of the
\* with statement
Move ==
    /\ frame.pc = "move"
    /\ LET f == info(frame, "Moving to target location")
           done == shutil_move(Get(scratch, frame.dll_file), frame.dll_file,
                               destination)
       IN  IF done.moved
           THEN /\ destination' = done.dst
                /\ scratch' = {}
                /\ frame' = [f EXCEPT !.pc = "returned"]
           ELSE /\ destination' = destination
                /\ Raise(f, Exception("shutil.Error",
                                      "Destination path already exists", <<>>))
    /\ UNCHANGED <<architecture, remote, target,
                   binding_vars, status_vars, handle_vars>>

(***************************************************************************)
(* Specifications                                                          *)
(***************************************************************************)
\* What every specification starts from: a process that has imported the
\* module, with one VNX_LSG_API instance whose __init__ has run
Start ==
    /\ errcheck = Registration(os_name)
    /\ call = NoCall
    /\ snapshot = [d \in Decoders |-> <<>>]
    /\ shown = [decoder |-> 0, keys |-> {}]
    /\ cls_default = 0
    /\ library_of = <<>>
    /\ nloads = 0
    /\ pc = [t \in Threads |-> "idle"]
    /\ local = [t \in Threads |-> 0]
    /\ handles = [t \in Threads |-> <<>>]

\* download_lsg_binaries is not called
NoInstall ==
    /\ architecture = "64bit"
    /\ remote = Unreachable
    /\ target = Missing
    /\ destination = Missing
    /\ scratch = {}
    /\ frame = NoFrame

\* One binding operation on inputs drawn from Requests
Init ==
    /\ os_name \in {"nt", "posix"}
    /\ Start
    /\ NoInstall
    /\ request \in Requests
    /\ raw_status = [d \in Decoders |-> <<0, 0>>]

Next ==
    \/ DeviceCall
    \/ IntSetterCall
    \/ BoolSetterCall
    \/ GlobalCall
    \/ set_test_mode
    \/ get_dev_info
    \/ get_model_name

Spec == Init /\ [][Next]_vars

\* Two status decoders, each built from a raw status drawn from StatusInputs
InitStatus ==
    /\ os_name = "nt"
    /\ Start
    /\ NoInstall
    /\ request = NoRequest
    /\ raw_status \in [Decoders -> StatusInputs]

NextStatus ==
    \/ LSGStatus_as_dict
    \/ LSGStatus_repr

SpecStatus == InitStatus /\ [][NextStatus]_vars

\* Handle acquisitions one after the other
InitHandles ==
    /\ os_name = "nt"
    /\ Start
    /\ NoInstall
    /\ request = NoRequest
    /\ raw_status = [d \in Decoders |-> <<0, 0>>]

NextSeq ==
    \/ DefaultCall
    \/ DirectConstruct

SpecSeq == InitHandles /\ [][NextSeq]_vars

\* Threads inside default() at the same time
NextThreads ==
    \/ DefaultTest
    \/ DefaultConstruct
    \/ DefaultStore
    \/ DefaultReturn

SpecThreads == InitHandles /\ [][NextThreads]_vars

\* One call of download_lsg_binaries(target_path): the platform, what the
\* URL serves and what target_path holds are drawn
InitInstall ==
    /\ os_name \in {"nt", "posix"}
    /\ Start
    /\ request = NoRequest
    /\ raw_status = [d \in Decoders |-> <<0, 0>>]
    /\ architecture \in {"64bit", "32bit"}
    /\ remote \in Remotes(MaxEntries)
    /\ target \in Targets
    /\ destination = target
    /\ scratch = {}
    /\ frame = CalledFrame

NextInstall ==
    \/ CheckPlatform
    \/ Download
    \/ FindSdk
    \/ FindDll
    \/ Move

SpecInstall == InitInstall /\ [][NextInstall]_vars

(***************************************************************************)
(* Properties                                                              *)
(***************************************************************************)
\* Some binding operation has run
Called == call.outcome # "none"

\* The 32-bit word w lies in 0x80000000 .. 0x80030000: read as a signed C
\* int it is at most DEVICE_NOT_READY read as a signed C int
AtMostNotReady(w) ==
    \/ Hi(w) \in 32768..32770
    \/ Hi(w) = 32771 /\ Lo(w) = 0

\* Bit 31 of the 32-bit word w is set
SignBitSet(w) == Hi(w) >= 32768

\* The signed C int with the bits of the 32-bit word w
SignedOf(w) == IF SignBitSet(w) THEN <<Hi(w) - 65536, Lo(w)>> ELSE w

\* The arguments the foreign call of the requested operation is given
PassedArguments ==
    IF request.method = "get_model_name"
    THEN <<request.args[1], request.buffer>>
    ELSE request.args

\* The entry points C1 lists as registered with the error check
C1_EntryPoints ==
    {IF os_name = "nt" THEN "fnLSG_GetModelNameA" ELSE "fnLSG_GetModelName",
     "fnLSG_InitDevice", "fnLSG_CloseDevice", "fnLSG_GetDLLVersion",
     "fnLSG_SetFrequency", "fnLSG_SetStartFrequency", "fnLSG_SetEndFrequency",
     "fnLSG_SetFrequencyStep", "fnLSG_SetDwellTime", "fnLSG_SetPowerLevel",
     "fnLSG_SetRFOn", "fnLSG_SetUseInternalRef",
     "fnLSG_SetSweepDirection", "fnLSG_SetSweepMode", "fnLSG_StartSweep",
     "fnLSG_SaveSettings",
     "fnLSG_GetSerialNumber", "fnLSG_GetFrequency", "fnLSG_GetPowerLevel",
     "fnLSG_GetStartFrequency", "fnLSG_GetEndFrequency", "fnLSG_GetDwellTime",
     "fnLSG_GetFrequencyStep", "fnLSG_GetRF_On", "fnLSG_GetUseInternalRef",
     "fnLSG_GetPowerLevelAbs", "fnLSG_GetMaxPwr", "fnLSG_GetMinPwr",
     "fnLSG_GetMaxFreq", "fnLSG_GetMinFreq"}

\* C1: whenever a listed entry point hands back a word that meets the
\* failure convention (at most DEVICE_NOT_READY as a signed int), the
\* operation raises a VNXError naming the symbol called, the raw value and
\* exactly the arguments passed, and returns no value.
C1_FailureRaisesWithContext ==
    (Called /\ call.symbol \in C1_EntryPoints /\ AtMostNotReady(call.word)) =>
        /\ call.outcome = "raised"
        /\ call.value = NoValue
        /\ call.error = [type |-> "VNXError", name |-> call.symbol,
                         code |-> SignedOf(call.word),
                         arguments |-> PassedArguments]

\* C1 witness: set_frequency(1, 5000000) whose native call gave BAD_PARAMETER
C1_Witness ==
    /\ call.method = "set_frequency"
    /\ call.arguments = <<1, 5000000>>
    /\ call.word = BAD_PARAMETER
    /\ call.outcome = "raised"
    /\ call.error.name = "fnLSG_SetFrequency"

\* C2 as stated: a checked call signals failure for every raw value with
\* bit 31 set, that is for every negative value.
C2_SignBitFails ==
    (Called /\ errcheck[call.symbol] = "parse_int_answer" /\ SignBitSet(call.word))
        => (call.outcome = "raised" /\ call.error.type = "VNXError")

\* C2 amended: a checked call signals failure exactly when the raw value,
\* read as a signed C int, is at most DEVICE_NOT_READY read as a signed C
\* int (words 0x80000000 .. 0x80030000, which hold the three named codes);
\* other negative values do not signal failure.
C2_ThresholdFails ==
    /\ AtMostNotReady(BAD_PARAMETER)
    /\ AtMostNotReady(BAD_HID_IO)
    /\ AtMostNotReady(DEVICE_NOT_READY)
    /\ (Called /\ errcheck[call.symbol] = "parse_int_answer") =>
           ((call.outcome = "raised" /\ call.error.type = "VNXError")
               <=> AtMostNotReady(call.word))

\* C2 witness: a checked call that handed back -1 and returned it
C2_Witness ==
    /\ call.method = "get_power_level"
    /\ call.word = <<65535, 65535>>
    /\ call.outcome = "returned"
    /\ call.value = IntValue(<<-1, 65535>>)

\* C3: get_device_status never raises because of the word it reads: it
\* returns the 32-bit status word unchanged, whatever its bits.
C3_StatusNeverChecked ==
    (Called /\ call.method = "get_device_status") =>
        /\ call.outcome = "returned"
        /\ call.error = NoError
        /\ call.value.kind = "int"
        /\ Lo(call.value.int) = Lo(call.word)
        /\ Hi(call.value.int) % 65536 = Hi(call.word)

\* C3 witness: a status word equal to a checked call's error code comes back
C3_Witness ==
    /\ call.method = "get_device_status"
    /\ call.word = BAD_PARAMETER
    /\ call.outcome = "returned"
    /\ call.value = IntValue(<<-32767, 0>>)

\* The entries before position n of seq are the list l
IsPrefix(l, seq) ==
    /\ Len(l) <= Len(seq)
    /\ \A i \in 1..Len(l) : l[i] = seq[i]

Max(a, b) == IF a >= b THEN a ELSE b

Min(a, b) == IF a <= b THEN a ELSE b

\* C4 as stated: for every count the native call reports, get_dev_info
\* returns at most 64 entries, at most the reported count (none for a count
\* below one), and they are the first entries of the device array in order.
C4_AtMostReportedCount ==
    (Called /\ call.method = "get_dev_info") =>
        /\ call.outcome = "returned"
        /\ call.value.kind = "list"
        /\ Len(call.value.items) <= 64
        /\ Len(call.value.items) <= Max(Val(SignedOf(call.word)), 0)
        /\ IsPrefix(call.value.items, request.buffer)

\* The number of bytes of buf before its first NUL
BytesBeforeNul(buf) ==
    CHOOSE k \in 0..Len(buf) :
        /\ \A i \in 1..k : buf[i] # 0
        /\ k = Len(buf) \/ buf[k + 1] = 0

\* The bytes get_model_name keeps of a name of len bytes for a reported
\* length n: the first n of them, or all but the last -n for a negative n
KeptBytes(n, len) == IF n >= 0 THEN Min(n, len) ELSE Max(0, len + n)

\* get_model_name ran and its native call did not meet the failure convention
NameRead ==
    /\ Called
    /\ call.method = "get_model_name"
    /\ ~AtMostNotReady(call.word)

\* C5 as stated: for every buffer content and every reported length n that
\* is no failure, get_model_name returns text of at most n characters (no
\* character for a negative n), and of exactly n characters when the name in
\* the buffer is ASCII and n is a length the buffer can hold.
C5_ExactlyReportedLength ==
    NameRead =>
        LET n == Val(SignedOf(call.word))
            len == BytesBeforeNul(request.buffer)
        IN  /\ call.outcome = "returned" =>
                   Len(call.value.items) <= Max(n, 0)
            /\ (n \in 0..32 /\ \A i \in 1..len : request.buffer[i] < 128) =>
                   /\ call.outcome = "returned"
                   /\ Len(call.value.items) = n

\* C5 amended: with len the number of buffer bytes before the first NUL,
\* get_model_name keeps the first min(n, len) bytes for n >= 0 and the first
\* max(0, len + n) bytes for a negative n that is no failure.  It returns
\* text of at most that many characters (so at most n for n >= 0), of
\* exactly those bytes when they are ASCII (7 characters for n = 7 when at
\* least 7 ASCII bytes precede the first NUL), and otherwise raises nothing
\* but UnicodeDecodeError.
C5_TruncatedName ==
    NameRead =>
        LET n == Val(SignedOf(call.word))
            len == BytesBeforeNul(request.buffer)
            kept == KeptBytes(n, len)
        IN  /\ call.outcome = "returned" =>
                   /\ call.value.kind = "str"
                   /\ Len(call.value.items) <= kept
                   /\ n >= 0 => Len(call.value.items) <= n
            /\ (\A i \in 1..kept : request.buffer[i] < 128) =>
                   /\ call.outcome = "returned"
                   /\ call.value.items = SubSeq(request.buffer, 1, kept)
            /\ (n = 7 /\ len >= 7 /\ \A i \in 1..7 : request.buffer[i] < 128) =>
                   Len(call.value.items) = 7
            /\ call.outcome = "raised" =>
                   /\ call.error.type = "UnicodeDecodeError"
                   /\ \E i \in 1..kept : request.buffer[i] >= 128

\* C5 witness: a reported length of 7 on a buffer of ASCII bytes gives 7
\* characters
C5_Witness ==
    /\ call.method = "get_model_name"
    /\ call.word = <<0, 7>>
    /\ request.buffer[1] = 76
    /\ call.outcome = "returned"
    /\ call.value.kind = "str"
    /\ Len(call.value.items) = 7

\* Bit k of the raw status s
Bit(s, k) ==
    IF k < 16 THEN (Lo(s) \div (2 ^ k)) % 2 = 1
    ELSE (Hi(s) \div (2 ^ (k - 16))) % 2 = 1

C6_Expected(s) ==
    [is_connected |-> Bit(s, 0), is_open |-> Bit(s, 1),
     is_sweeping |-> Bit(s, 2), is_sweeping_up |-> Bit(s, 3),
     is_repeating_sweep |-> Bit(s, 4), is_sweeping_bidirectional |-> Bit(s, 5),
     is_pll_locked |-> Bit(s, 6), is_invalid |-> Bit(s, 31)]

C6_Snapshots ==
    /\ \A d \in Decoders :
           snapshot[d] # <<>> =>
               /\ DOMAIN snapshot[d][1] =
                      {"is_connected", "is_open", "is_sweeping", "is_sweeping_up",
                       "is_repeating_sweep", "is_sweeping_bidirectional",
                       "is_pll_locked", "is_invalid"}
               /\ snapshot[d][1] = C6_Expected(raw_status[d])
    /\ \A d, e \in Decoders :
           (snapshot[d] # <<>> /\ snapshot[e] # <<>> /\ raw_status[d] = raw_status[e])
               => snapshot[d] = snapshot[e]

\* C6: as_dict() of a decoder has exactly the eight is_* keys, each true
\* exactly when bit 0, 1, 2, 3, 4, 5, 6 or 31 of the raw status is set; two
\* decoders of the same raw status give the same snapshot; and no decoder
\* operation changes a decoder's raw status.
C6_DecoderIsPure ==
    /\ []C6_Snapshots
    /\ [][raw_status' = raw_status]_vars

\* C6 witness: the two decoders hold the sign bit alone, one as an unsigned
\* and one as a signed integer, and both snapshots say invalid only
C6_Witness ==
    /\ raw_status[1] = <<32768, 0>>
    /\ raw_status[2] = <<-32768, 0>>
    /\ snapshot[1] # <<>>
    /\ snapshot[2] = snapshot[1]
    /\ snapshot[1][1].is_invalid
    /\ ~snapshot[1][1].is_pll_locked
    /\ shown = [decoder |-> 2, keys |-> {"is_invalid"}]

\* C7 as stated: after any sequence of handle acquisitions that supply no
\* library, the library has been loaded exactly once and every handle
\* references the same loaded library.
C7_LoadedOnce ==
    AllHandles # {} =>
        /\ nloads = 1
        /\ \A g, h \in AllHandles : library_of[g] = library_of[h]

\* C8 as stated: however the threads calling default() interleave, the
\* library is loaded at most once and all callers receive the same instance.
C8_OneDefaultUnderThreads ==
    /\ nloads <= 1
    /\ \A t, u \in Threads :
           \A i \in 1..Len(handles[t]), j \in 1..Len(handles[u]) :
               handles[t][i] = handles[u][j]

\* The operation ran one foreign call, to its own entry point
InvokedOnce == call.invoked = <<call.symbol>>

\* C9 as stated: every checked operation whose raw value is no failure
\* returns that raw integer unchanged, and every execution of a checked
\* operation invokes its entry point exactly once.
C9_RawPassThrough ==
    (Called /\ errcheck[call.symbol] = "parse_int_answer") =>
        /\ InvokedOnce
        /\ ~AtMostNotReady(call.word) =>
               /\ call.outcome = "returned"
               /\ call.value = [kind |-> "int", int |-> SignedOf(call.word),
                                items |-> <<>>]

\* C9 amended: every checked operation other than get_model_name returns a
\* raw value that is no failure unchanged; get_model_name returns the
\* decoded name instead of the raw length; and every execution of a checked
\* operation, failing or not, invokes its entry point exactly once.
C9_RawPassThroughButName ==
    (Called /\ errcheck[call.symbol] = "parse_int_answer") =>
        /\ InvokedOnce
        /\ (~AtMostNotReady(call.word) /\ call.method # "get_model_name") =>
               /\ call.outcome = "returned"
               /\ call.value = [kind |-> "int", int |-> SignedOf(call.word),
                                items |-> <<>>]
        /\ call.method = "get_model_name" => call.value.kind # "int"

\* C9 witness: get_frequency handed back 5000000 and returned it after one
\* foreign call
C9_Witness ==
    /\ call.method = "get_frequency"
    /\ call.word = Py(5000000)
    /\ call.outcome = "returned"
    /\ call.value.int = Py(5000000)
    /\ call.invoked = <<"fnLSG_GetFrequency">>

\* The entries of the served archive whose path contains '64Bit SDK'
C11_SdkEntries ==
    IF remote.reachable /\ remote.body.zip
    THEN {i \in DOMAIN remote.body.listing :
            Contains(remote.body.listing[i].name, SdkMarker)}
    ELSE {}

\* The first of them, as it stands in the archive
C11_Sdk ==
    remote.body.listing[CHOOSE i \in C11_SdkEntries :
                            \A k \in C11_SdkEntries : i <= k].body

\* The entries of that nested archive whose name ends in 'vnx_fsynth.dll'
C11_DllEntries ==
    IF C11_SdkEntries # {} /\ C11_Sdk.zip
    THEN {j \in DOMAIN C11_Sdk.listing :
            EndsWith(C11_Sdk.listing[j].name, DllSuffix)}
    ELSE {}

\* The first matching DLL entry of the first matching SDK entry
C11_Dll ==
    C11_Sdk.listing[CHOOSE j \in C11_DllEntries :
                        \A k \in C11_DllEntries : j <= k]

C11_Supported == os_name = "nt" /\ architecture = "64bit"

C11_Eligible == C11_Supported /\ C11_DllEntries # {}

\* target_path holds what it held before and one file more, with the
\* bytes of the first matching DLL entry
C11_PlacedOne ==
    IF target.kind = "dir"
    THEN /\ destination.kind = "dir"
         /\ \E e \in destination.files :
                /\ e \notin target.files
                /\ destination.files = target.files \cup {e}
                /\ e.body = C11_Dll.body
    ELSE destination = RegularFile(C11_Dll.body)

\* C11: download_lsg_binaries places a file at the destination exactly when
\* the platform is 64-bit Windows, the served archive has an entry whose
\* path contains '64Bit SDK' and that nested archive has an entry ending in
\* 'vnx_fsynth.dll'; then it places exactly one file, with the bytes of the
\* first matching DLL entry of the first matching SDK entry, as its last
\* step.  In every other case it fails with an error and the destination
\* is as it was, and an unsupported platform fails before any download.
C11_InstallsExactlyWhenEligible ==
    /\ frame.pc # "returned" => destination = target
    /\ ~C11_Supported => frame.downloads = 0
    /\ frame.pc \in {"returned", "raised"} =>
          /\ (frame.pc = "returned") <=> C11_Eligible
          /\ frame.pc = "returned" => C11_PlacedOne
          /\ frame.pc = "raised" => frame.exception # NoException

====
